---- MODULE Spec2Model ----
(***************************************************************************)
(* Model of scripts/daily_aggregation.py: the daily vehicle summary batch  *)
(* job (haversine_km, fetch_daily_telemetry, compute_summary,              *)
(* upsert_summary, get_active_vehicles, run).                              *)
(*                                                                         *)
(* Number representation (Python floats become fixed-point integers):      *)
(*   latitude, longitude      millidegrees                                 *)
(*   ts, delta                whole seconds                                *)
(*   speed                    whole km/h                                   *)
(*   a distance inside loop   millimetres                                  *)
(*   total_distance_km, avg_speed, max_speed, total_driving_minutes        *)
(*                            hundredths (the value of round(x, 2) * 100)  *)
(***************************************************************************)
EXTENDS Integers, Sequences, FiniteSets, TLC

VARIABLES
    \* ---- compute_summary called on its own (specification SpecAgg) ----
    in_vehicle_id,      \* argument vehicle_id
    in_date,            \* argument target_date
    in_rows,            \* argument rows
    apc,                \* position inside compute_summary
    i,                  \* loop index of "for i, row in enumerate(rows)"
    acc,                \* the loop's locals
    result,             \* the returned dict
    \* ---- the batch job (specification Spec) ----
    vehicles_table,     \* table vehicles: id -> status
    vehicle_telemetry,  \* table vehicle_telemetry: a set of rows
    daily_vehicle_summary, \* table daily_vehicle_summary, committed rows
    uncommitted,        \* the table as the open transaction sees it
    clock,              \* the store's NOW()
    pc,                 \* position inside run()
    conn_open,          \* conn is connected and not yet closed
    target_date,        \* argument of run()
    vehicles,           \* local "vehicles" of run()
    idx,                \* position of the for loop over vehicles (0-based)
    rows,               \* local "rows"
    summary,            \* local "summary"
    total_points,       \* local "total_points"
    total_violations,   \* local "total_violations"
    reported,           \* the final "DONE" line was logged by this run
    runs,               \* number of invocations of run() so far
    \* ---- history of the current run (records what the code did) ----
    log,                \* the store calls of this run, in order
    start_table,        \* daily_vehicle_summary when this run started
    failed_at,          \* 0-based position of the vehicle whose step raised, or -1
    first_done          \* per date: the table as the first completed run left it

aggvars == <<in_vehicle_id, in_date, in_rows, apc, i, acc, result>>
dbvars == <<vehicles_table, vehicle_telemetry, daily_vehicle_summary, uncommitted, clock>>
runvars == <<pc, conn_open, target_date, vehicles, idx, rows, summary,
             total_points, total_violations, reported, runs>>
histvars == <<log, start_table, failed_at, first_done>>
vars == <<aggvars, dbvars, runvars, histvars>>

-----------------------------------------------------------------------------
(* Bounds of the model *)

\* longest point sequence handed to compute_summary in SpecAgg
MaxPoints == 3
\* vehicles in the vehicles table are 1..NumVehicles
NumVehicles == 2
\* invocations of run() in one behaviour
MaxRuns == 2

-----------------------------------------------------------------------------
(* Program constants *)

NoiseKm == 50             \* "if dist < 50"
CriticalSpeed == 120      \* "if speed > 120"
SpeedingSpeed == 80       \* "elif speed > 80"
MaxGapSeconds == 300      \* "if delta < 300"
SecondsPerMinute == 60    \* "driving_seconds / 60"
SecondsPerDay == 86400    \* timedelta(days=1)

MmPerKm == 1000000
\* the fixed-point scale of a value rounded by round(x, 2)
Scale == 100

-----------------------------------------------------------------------------
(* Arithmetic helpers *)

\* round(n / d, 2) * 10^2 when called as RoundDiv(n * Scale, d): the nearest
\* integer to n/d, a tie going to the even neighbour as Python's round does.
RoundDiv(n, d) ==
    LET q == n \div d
        r == n % d
    IN  IF 2 * r < d THEN q
        ELSE IF 2 * r > d THEN q + 1
        ELSE IF q % 2 = 0 THEN q ELSE q + 1

RECURSIVE SeqSum(_)
SeqSum(s) == IF s = <<>> THEN 0 ELSE Head(s) + SeqSum(Tail(s))

RECURSIVE SeqMax(_)
SeqMax(s) ==
    IF Len(s) = 1 THEN Head(s)
    ELSE LET m == SeqMax(Tail(s)) IN IF Head(s) > m THEN Head(s) ELSE m

\* rows[i] of the 0-based Python list
At(list, k) == list[k + 1]

-----------------------------------------------------------------------------
(* haversine_km *)

\* The coordinates the model draws points from (millidegrees).
PosA == <<10000, 106000>>
PosB == <<10001, 106000>>
PosC == <<10002, 106000>>
PosD == <<10500, 106000>>
PosE == <<10000, 106400>>
Positions == {PosA, PosB, PosC, PosD, PosE}

\* haversine_km in millimetres: the value of the source's formula
\* R * 2 * atan2(sqrt(a), sqrt(1 - a)), R = 6371.0, at each pair of Positions.
haversine_km(lat1, lon1, lat2, lon2) ==
    LET p == <<lat1, lon1>>
        q == <<lat2, lon2>>
        pair == {p, q}
    IN  CASE p = q -> 0
          [] pair = {PosA, PosB} -> 111195
          [] pair = {PosA, PosC} -> 222390
          [] pair = {PosA, PosD} -> 55597463
          [] pair = {PosA, PosE} -> 43802248
          [] pair = {PosB, PosC} -> 111195
          [] pair = {PosB, PosD} -> 55486268
          [] pair = {PosB, PosE} -> 43802321
          [] pair = {PosC, PosD} -> 55375073
          [] pair = {PosC, PosE} -> 43802677
          [] pair = {PosD, PosE} -> 70758136

-----------------------------------------------------------------------------
(* compute_summary *)

SummaryFields == {"vehicle_id", "summary_date", "total_distance_km", "avg_speed",
                  "max_speed", "total_points", "speeding_violations",
                  "critical_violations", "engine_off_moving",
                  "total_driving_minutes"}

DerivedFields == SummaryFields \ {"vehicle_id", "summary_date"}

\* EmptySummary with the key "avg_speed" left out of the dict
EmptySummary_NoAvg(vehicle_id, date) ==
    [vehicle_id |-> vehicle_id,
     summary_date |-> date,
     total_distance_km |-> 0,
     max_speed |-> 0,
     total_points |-> 0,
     speeding_violations |-> 0,
     critical_violations |-> 0,
     engine_off_moving |-> 0,
     total_driving_minutes |-> 0]

\* lines 89-101: the summary of an empty point sequence
EmptySummary(vehicle_id, date) ==
    [vehicle_id |-> vehicle_id,
     summary_date |-> date,
     total_distance_km |-> 0,
     avg_speed |-> 0,
     max_speed |-> 0,
     total_points |-> 0,
     speeding_violations |-> 0,
     critical_violations |-> 0,
     engine_off_moving |-> 0,
     total_driving_minutes |-> 0]

\* lines 103-108: the locals before the loop
InitLocals ==
    [total_distance |-> 0,
     speeds |-> <<>>,
     speeding |-> 0,
     critical |-> 0,
     engine_off_moving |-> 0,
     driving_seconds |-> 0]

\* DistanceStep without the "if dist < 50" filter
DistanceStep_NoFilter(total_distance, list, k) ==
    IF k > 0
    THEN LET prev == At(list, k - 1)
             row == At(list, k)
         IN  total_distance + haversine_km(prev.latitude, prev.longitude,
                                           row.latitude, row.longitude)
    ELSE total_distance

\* lines 115-125: distance between consecutive points, GPS jumps dropped
DistanceStep(total_distance, list, k) ==
    IF k > 0
    THEN LET prev == At(list, k - 1)
             row == At(list, k)
             dist == haversine_km(prev.latitude, prev.longitude,
                                  row.latitude, row.longitude)
         IN  IF dist < NoiseKm * MmPerKm THEN total_distance + dist
             ELSE total_distance
    ELSE total_distance

\* lines 128-129
CriticalStep(critical, speed) ==
    IF speed > CriticalSpeed THEN critical + 1 ELSE critical

\* SpeedingStep with "if speed > 80" in place of "elif speed > 80"
SpeedingStep_If(speeding, speed) ==
    IF speed > SpeedingSpeed THEN speeding + 1 ELSE speeding

\* lines 128-131
SpeedingStep(speeding, speed) ==
    IF speed > CriticalSpeed THEN speeding
    ELSE IF speed > SpeedingSpeed THEN speeding + 1
    ELSE speeding

\* lines 134-135
EngineOffStep(engine_off_moving, row) ==
    IF ~row.engine_status /\ row.speed > 0 THEN engine_off_moving + 1
    ELSE engine_off_moving

\* DrivingStep with "delta <= 300" in place of "delta < 300"
DrivingStep_Le(driving_seconds, list, k) ==
    IF k > 0 /\ At(list, k).engine_status
    THEN LET delta == At(list, k).ts - At(list, k - 1).ts
         IN  IF delta <= MaxGapSeconds THEN driving_seconds + delta
             ELSE driving_seconds
    ELSE driving_seconds

\* DrivingStep that also wants the engine on at the previous point
DrivingStep_BothOn(driving_seconds, list, k) ==
    IF k > 0 /\ At(list, k).engine_status /\ At(list, k - 1).engine_status
    THEN LET delta == At(list, k).ts - At(list, k - 1).ts
         IN  IF delta < MaxGapSeconds THEN driving_seconds + delta
             ELSE driving_seconds
    ELSE driving_seconds

\* lines 139-144
DrivingStep(driving_seconds, list, k) ==
    IF k > 0 /\ At(list, k).engine_status
    THEN LET prev_ts == At(list, k - 1).ts
             curr_ts == At(list, k).ts
             delta == curr_ts - prev_ts
         IN  IF delta < MaxGapSeconds THEN driving_seconds + delta
             ELSE driving_seconds
    ELSE driving_seconds

\* LoopBody that leaves the iteration ("continue") when the pair is a GPS jump
LoopBody_SkipJump(a, list, k) ==
    LET row == At(list, k)
        speed == row.speed
        jump == /\ k > 0
                /\ DistanceStep(a.total_distance, list, k) = a.total_distance
                /\ <<row.latitude, row.longitude>> #
                      <<At(list, k - 1).latitude, At(list, k - 1).longitude>>
    IN  IF jump THEN [a EXCEPT !.speeds = Append(a.speeds, speed)]
        ELSE [total_distance |-> DistanceStep(a.total_distance, list, k),
              speeds |-> Append(a.speeds, speed),
              speeding |-> SpeedingStep(a.speeding, speed),
              critical |-> CriticalStep(a.critical, speed),
              engine_off_moving |-> EngineOffStep(a.engine_off_moving, row),
              driving_seconds |-> DrivingStep(a.driving_seconds, list, k)]

\* lines 110-144: one iteration of the loop, on the locals a
LoopBody(a, list, k) ==
    LET row == At(list, k)
        speed == row.speed
    IN  [total_distance |-> DistanceStep(a.total_distance, list, k),
         speeds |-> Append(a.speeds, speed),
         speeding |-> SpeedingStep(a.speeding, speed),
         critical |-> CriticalStep(a.critical, speed),
         engine_off_moving |-> EngineOffStep(a.engine_off_moving, row),
         driving_seconds |-> DrivingStep(a.driving_seconds, list, k)]

\* lines 146-157: the returned dict
MakeSummary(vehicle_id, date, list, a) ==
    [vehicle_id |-> vehicle_id,
     summary_date |-> date,
     total_distance_km |-> RoundDiv(a.total_distance, MmPerKm \div Scale),
     avg_speed |-> IF a.speeds # <<>>
                   THEN RoundDiv(SeqSum(a.speeds) * Scale, Len(a.speeds))
                   ELSE 0,
     max_speed |-> IF a.speeds # <<>> THEN SeqMax(a.speeds) * Scale ELSE 0,
     total_points |-> Len(list),
     speeding_violations |-> a.speeding,
     critical_violations |-> a.critical,
     engine_off_moving |-> a.engine_off_moving,
     total_driving_minutes |-> RoundDiv(a.driving_seconds * Scale, SecondsPerMinute)]

\* the locals after the first k iterations
RECURSIVE LoopFrom(_, _, _)
LoopFrom(a, list, k) ==
    IF k >= Len(list) THEN a ELSE LoopFrom(LoopBody(a, list, k), list, k + 1)

\* lines 82-157 as one call
compute_summary(vehicle_id, date, list) ==
    IF list = <<>> THEN EmptySummary(vehicle_id, date)
    ELSE MakeSummary(vehicle_id, date, list, LoopFrom(InitLocals, list, 0))

-----------------------------------------------------------------------------
(* Inputs of compute_summary in SpecAgg *)

\* A sample is a telemetry point given by its distance in time from the point
\* before it: [gap, latitude, longitude, speed, engine_status].
Sample(gap, pos, speed, engine) ==
    [gap |-> gap, latitude |-> pos[1], longitude |-> pos[2],
     speed |-> speed, engine_status |-> engine]

Samples ==
    { Sample(60, PosA, 0, FALSE),
      Sample(60, PosB, 90, TRUE),
      Sample(60, PosC, 130, TRUE),
      Sample(120, PosB, 80, TRUE),
      Sample(600, PosC, 120, TRUE),
      Sample(300, PosA, 81, TRUE),
      Sample(299, PosE, 121, TRUE),
      Sample(60, PosD, 50, TRUE),
      Sample(120, PosD, 121, FALSE),
      Sample(600, PosA, 0, TRUE) }

\* the rows of a sample sequence: the first point is at ts 0, every later one
\* "gap" seconds after the one before it (the list is ordered by ts)
RECURSIVE RowsFrom(_, _)
RowsFrom(samples, prev_ts) ==
    IF samples = <<>> THEN <<>>
    ELSE LET s == Head(samples)
             ts == prev_ts + s.gap
         IN  <<[ts |-> ts, latitude |-> s.latitude, longitude |-> s.longitude,
                speed |-> s.speed, engine_status |-> s.engine_status]>>
             \o RowsFrom(Tail(samples), ts)

RowsOf(samples) ==
    IF samples = <<>> THEN <<>>
    ELSE RowsFrom(samples, 0 - Head(samples).gap)

SampleSeqs == UNION { [1..n -> Samples] : n \in 0..MaxPoints }

InputRows == { RowsOf(s) : s \in SampleSeqs }

NoResult == [vehicle_id |-> 0]

\* what the batch variables hold while compute_summary is studied on its own
BatchIdle ==
    /\ vehicles_table = <<>>
    /\ vehicle_telemetry = {}
    /\ daily_vehicle_summary = <<>>
    /\ uncommitted = <<>>
    /\ clock = 0
    /\ pc = "idle"
    /\ conn_open = FALSE
    /\ target_date = 0
    /\ vehicles = <<>>
    /\ idx = 0
    /\ rows = <<>>
    /\ summary = NoResult
    /\ total_points = 0
    /\ total_violations = 0
    /\ reported = FALSE
    /\ runs = 0
    /\ log = <<>>
    /\ start_table = <<>>
    /\ failed_at = -1
    /\ first_done = [d \in {} |-> 0]

InitAgg ==
    /\ in_vehicle_id = 7
    /\ in_date = 1
    /\ in_rows \in InputRows
    /\ apc = "call"
    /\ i = 0
    /\ acc = InitLocals
    /\ result = NoResult
    /\ BatchIdle

\* lines 89-108: the empty case returns at once, otherwise the locals are set
AggEnter ==
    /\ apc = "call"
    /\ IF in_rows = <<>>
       THEN /\ result' = EmptySummary(in_vehicle_id, in_date)
            /\ apc' = "returned"
            /\ UNCHANGED <<i, acc>>
       ELSE /\ acc' = InitLocals
            /\ i' = 0
            /\ apc' = "loop"
            /\ UNCHANGED result
    /\ UNCHANGED <<in_vehicle_id, in_date, in_rows>>
    /\ UNCHANGED <<dbvars, runvars, histvars>>

\* lines 110-144: one iteration of the loop
AggStep ==
    /\ apc = "loop"
    /\ i < Len(in_rows)
    /\ acc' = LoopBody(acc, in_rows, i)
    /\ i' = i + 1
    /\ UNCHANGED <<in_vehicle_id, in_date, in_rows, apc, result>>
    /\ UNCHANGED <<dbvars, runvars, histvars>>

\* lines 146-157
AggReturn ==
    /\ apc = "loop"
    /\ i = Len(in_rows)
    /\ result' = MakeSummary(in_vehicle_id, in_date, in_rows, acc)
    /\ apc' = "returned"
    /\ UNCHANGED <<in_vehicle_id, in_date, in_rows, i, acc>>
    /\ UNCHANGED <<dbvars, runvars, histvars>>

NextAgg == AggEnter \/ AggStep \/ AggReturn

SpecAgg == InitAgg /\ [][NextAgg]_vars

-----------------------------------------------------------------------------
(* The store *)

Vehicles == 1..NumVehicles

\* the target dates run() is called with; date d is the half-open interval
\* [d * SecondsPerDay, (d + 1) * SecondsPerDay) of ts
Dates == {1, 2}

DayStart(d) == d * SecondsPerDay

TelemetryRow(v, ts, pos, speed, engine) ==
    [vehicle_id |-> v, ts |-> ts, latitude |-> pos[1], longitude |-> pos[2],
     speed |-> speed, engine_status |-> engine]

\* what one vehicle can have in vehicle_telemetry: nothing; the scenario's
\* three points on day 1 and a point at midnight sharp that opens day 2; a
\* day 1 with a GPS jump and a point on day 2. The points of one vehicle have
\* distinct ts, so ORDER BY ts ASC fixes the order of the fetched rows.
StreamKinds == {"none", "scenario", "jump"}

Stream(v, kind) ==
    CASE kind = "none" -> {}
      [] kind = "scenario" ->
            { TelemetryRow(v, DayStart(1) + 120, PosC, 130, TRUE),
              TelemetryRow(v, DayStart(1), PosA, 0, FALSE),
              TelemetryRow(v, DayStart(2), PosC, 130, TRUE),
              TelemetryRow(v, DayStart(1) + 60, PosB, 90, TRUE) }
      [] kind = "jump" ->
            { TelemetryRow(v, DayStart(1) + 3660, PosD, 90, FALSE),
              TelemetryRow(v, DayStart(1) + 3600, PosA, 50, TRUE),
              TelemetryRow(v, DayStart(2) + 100, PosB, 121, TRUE) }

\* a row of daily_vehicle_summary: the ten columns of the INSERT and created_at
SummaryRow(s, created_at) ==
    [vehicle_id |-> s.vehicle_id,
     summary_date |-> s.summary_date,
     total_distance_km |-> s.total_distance_km,
     avg_speed |-> s.avg_speed,
     max_speed |-> s.max_speed,
     total_points |-> s.total_points,
     speeding_violations |-> s.speeding_violations,
     critical_violations |-> s.critical_violations,
     engine_off_moving |-> s.engine_off_moving,
     total_driving_minutes |-> s.total_driving_minutes,
     created_at |-> created_at]

\* created_at of a row the INSERT made: the column's default, which the
\* statement does not set
CreatedDefault == <<"default", 0>>
\* created_at = NOW()
CreatedNow(now) == <<"now", now>>

\* a row an earlier run left behind for (v, d), computed from other points
StaleRow(v, d) ==
    SummaryRow([vehicle_id |-> v, summary_date |-> d, total_distance_km |-> 4321,
                avg_speed |-> 5555, max_speed |-> 14000, total_points |-> 9,
                speeding_violations |-> 4, critical_violations |-> 3,
                engine_off_moving |-> 2, total_driving_minutes |-> 777],
               CreatedDefault)

\* the stale table: one row per vehicle for date 1
StaleTable == [v \in Vehicles |-> StaleRow(v, 1)]

HasKey(r, vehicle_id, date) == r.vehicle_id = vehicle_id /\ r.summary_date = date

\* the places of the rows of a table stored under a key
KeyRows(table, vehicle_id, date) ==
    { k \in 1..Len(table) : HasKey(table[k], vehicle_id, date) }

-----------------------------------------------------------------------------
(* fetch_daily_telemetry, upsert_summary, get_active_vehicles *)

\* ORDER BY ts ASC of a set of rows with distinct ts
RECURSIVE OrderByTs(_)
OrderByTs(set) ==
    IF set = {} THEN <<>>
    ELSE LET first == CHOOSE r \in set : \A o \in set : r.ts <= o.ts
         IN  <<first>> \o OrderByTs(set \ {first})

\* lines 69-79: the SELECT of one vehicle's points of one day, ordered by ts
fetch_daily_telemetry(table, vehicle_id, date) ==
    LET hit == { r \in table : /\ r.vehicle_id = vehicle_id
                               /\ r.ts >= DayStart(date)
                               /\ r.ts < DayStart(date + 1) }
        cols == { [ts |-> r.ts, latitude |-> r.latitude, longitude |-> r.longitude,
                   speed |-> r.speed, engine_status |-> r.engine_status] : r \in hit }
    IN  OrderByTs(cols)

\* the statement without its ON CONFLICT clause: a plain INSERT
UpsertStatement_InsertOnly(table, s, now) ==
    Append(table, SummaryRow(s, CreatedDefault))

\* the statement with total_driving_minutes and created_at missing from the
\* DO UPDATE SET list
UpsertStatement_Merge(table, s, now) ==
    IF KeyRows(table, s.vehicle_id, s.summary_date) # {}
    THEN [k \in 1..Len(table) |->
            IF HasKey(table[k], s.vehicle_id, s.summary_date)
            THEN [table[k] EXCEPT
                    !.total_distance_km = s.total_distance_km,
                    !.avg_speed = s.avg_speed,
                    !.max_speed = s.max_speed,
                    !.total_points = s.total_points,
                    !.speeding_violations = s.speeding_violations,
                    !.critical_violations = s.critical_violations,
                    !.engine_off_moving = s.engine_off_moving]
            ELSE table[k]]
    ELSE Append(table, SummaryRow(s, CreatedDefault))

\* lines 167-186: INSERT ... ON CONFLICT (vehicle_id, summary_date) DO UPDATE
UpsertStatement(table, s, now) ==
    IF KeyRows(table, s.vehicle_id, s.summary_date) # {}
    THEN [k \in 1..Len(table) |->
            IF HasKey(table[k], s.vehicle_id, s.summary_date)
            THEN [table[k] EXCEPT
                    !.total_distance_km = s.total_distance_km,
                    !.avg_speed = s.avg_speed,
                    !.max_speed = s.max_speed,
                    !.total_points = s.total_points,
                    !.speeding_violations = s.speeding_violations,
                    !.critical_violations = s.critical_violations,
                    !.engine_off_moving = s.engine_off_moving,
                    !.total_driving_minutes = s.total_driving_minutes,
                    !.created_at = CreatedNow(now)]
            ELSE table[k]]
    ELSE Append(table, SummaryRow(s, CreatedDefault))

\* the ids of a set, ascending
RECURSIVE Ascending(_)
Ascending(ids) ==
    IF ids = {} THEN <<>>
    ELSE LET least == CHOOSE x \in ids : \A y \in ids : x <= y
         IN  <<least>> \o Ascending(ids \ {least})

\* the ids of a set, descending
RECURSIVE Descending(_)
Descending(ids) ==
    IF ids = {} THEN <<>>
    ELSE LET most == CHOOSE x \in ids : \A y \in ids : x >= y
         IN  <<most>> \o Descending(ids \ {most})

\* get_active_vehicles without "WHERE status = 'active'"
get_active_vehicles_All(table) == Ascending(DOMAIN table)

\* get_active_vehicles with the rows coming back in descending id order
get_active_vehicles_Desc(table) ==
    Descending({ id \in DOMAIN table : table[id] = "active" })

\* lines 194-196: SELECT id FROM vehicles WHERE status = 'active' ORDER BY id
get_active_vehicles(table) ==
    Ascending({ id \in DOMAIN table : table[id] = "active" })

-----------------------------------------------------------------------------
(* run *)

NoSnapshot == [run |-> 0, table |-> <<>>]

\* what the compute_summary variables hold while the batch job is studied
AggIdle ==
    /\ in_vehicle_id = 0
    /\ in_date = 0
    /\ in_rows = <<>>
    /\ apc = "idle"
    /\ i = 0
    /\ acc = InitLocals
    /\ result = NoResult

Init ==
    /\ AggIdle
    /\ vehicles_table \in [Vehicles -> {"active", "inactive"}]
    /\ \E kind \in [Vehicles -> StreamKinds] :
          vehicle_telemetry = UNION { Stream(v, kind[v]) : v \in Vehicles }
    /\ daily_vehicle_summary \in {<<>>, StaleTable}
    /\ uncommitted = daily_vehicle_summary
    /\ clock = 0
    /\ pc = "idle"
    /\ conn_open = FALSE
    /\ target_date = 0
    /\ vehicles = <<>>
    /\ idx = 0
    /\ rows = <<>>
    /\ summary = NoResult
    /\ total_points = 0
    /\ total_violations = 0
    /\ reported = FALSE
    /\ runs = 0
    /\ log = <<>>
    /\ start_table = daily_vehicle_summary
    /\ failed_at = -1
    /\ first_done = [d \in Dates |-> NoSnapshot]

\* the process is not inside run(): never started, completed, or aborted
NotRunning == pc \in {"idle", "done", "aborted"}

\* the locals and the history of a call of run(d), at its start
EnterRun(d) ==
    /\ NotRunning
    /\ runs < MaxRuns
    /\ runs' = runs + 1
    /\ target_date' = d
    /\ vehicles' = <<>>
    /\ idx' = 0
    /\ rows' = <<>>
    /\ summary' = NoResult
    /\ total_points' = 0
    /\ total_violations' = 0
    /\ reported' = FALSE
    /\ log' = <<>>
    /\ start_table' = daily_vehicle_summary
    /\ failed_at' = -1
    /\ UNCHANGED <<aggvars, dbvars, first_done>>

\* line 205: run(d) is called and psycopg2.connect succeeds
RunStart ==
    \E d \in Dates :
        /\ EnterRun(d)
        /\ conn_open' = TRUE
        /\ pc' = "get_vehicles"

\* line 205: psycopg2.connect raises, before the try block
ConnectFail ==
    \E d \in Dates :
        /\ EnterRun(d)
        /\ conn_open' = FALSE
        /\ pc' = "aborted"

\* lines 207-211
GetActiveVehicles ==
    /\ pc = "get_vehicles"
    /\ vehicles' = get_active_vehicles(vehicles_table)
    /\ total_points' = 0
    /\ total_violations' = 0
    /\ idx' = 0
    /\ pc' = "loop"
    /\ UNCHANGED <<aggvars, dbvars, histvars>>
    /\ UNCHANGED <<conn_open, target_date, rows, summary, reported, runs>>

\* an exception leaves run() through "finally: conn.close()", which rolls
\* the open transaction back
Abort ==
    /\ conn_open' = FALSE
    /\ pc' = "aborted"
    /\ uncommitted' = daily_vehicle_summary'
    /\ UNCHANGED <<aggvars, vehicles_table, vehicle_telemetry, clock>>
    /\ UNCHANGED <<target_date, vehicles, idx, rows, summary, total_points,
                   total_violations, reported, runs>>
    /\ UNCHANGED <<log, start_table, first_done>>

\* line 207 raises
GetVehiclesFail ==
    /\ pc = "get_vehicles"
    /\ UNCHANGED <<daily_vehicle_summary, failed_at>>
    /\ Abort

\* line 214
Fetch ==
    /\ pc = "loop"
    /\ idx < Len(vehicles)
    /\ rows' = fetch_daily_telemetry(vehicle_telemetry, At(vehicles, idx), target_date)
    /\ log' = Append(log, <<"fetch", At(vehicles, idx)>>)
    /\ pc' = "compute"
    /\ UNCHANGED <<aggvars, dbvars>>
    /\ UNCHANGED <<conn_open, target_date, vehicles, idx, summary, total_points,
                   total_violations, reported, runs>>
    /\ UNCHANGED <<start_table, failed_at, first_done>>

\* FetchFail caught per vehicle: the vehicle is skipped and the loop goes on
FetchFail_Isolated ==
    /\ pc = "loop"
    /\ idx < Len(vehicles)
    /\ failed_at' = idx
    /\ idx' = idx + 1
    /\ UNCHANGED <<aggvars, dbvars>>
    /\ UNCHANGED <<pc, conn_open, target_date, vehicles, rows, summary,
                   total_points, total_violations, reported, runs>>
    /\ UNCHANGED <<log, start_table, first_done>>

\* line 214 raises
FetchFail ==
    /\ pc = "loop"
    /\ idx < Len(vehicles)
    /\ failed_at' = idx
    /\ UNCHANGED daily_vehicle_summary
    /\ Abort

\* line 215
Compute ==
    /\ pc = "compute"
    /\ summary' = compute_summary(At(vehicles, idx), target_date, rows)
    /\ log' = Append(log, <<"compute", At(vehicles, idx)>>)
    /\ pc' = "upsert"
    /\ UNCHANGED <<aggvars, dbvars>>
    /\ UNCHANGED <<conn_open, target_date, vehicles, idx, rows, total_points,
                   total_violations, reported, runs>>
    /\ UNCHANGED <<start_table, failed_at, first_done>>

\* lines 187-188: cur.execute(query, summary) inside the open transaction
UpsertExecute ==
    /\ pc = "upsert"
    /\ clock' = clock + 1
    /\ uncommitted' = UpsertStatement(daily_vehicle_summary, summary, clock')
    /\ log' = Append(log, <<"execute", At(vehicles, idx)>>)
    /\ pc' = "commit"
    /\ UNCHANGED <<aggvars, vehicles_table, vehicle_telemetry, daily_vehicle_summary>>
    /\ UNCHANGED <<conn_open, target_date, vehicles, idx, rows, summary,
                   total_points, total_violations, reported, runs>>
    /\ UNCHANGED <<start_table, failed_at, first_done>>

\* line 188 raises
UpsertExecuteFail ==
    /\ pc = "upsert"
    /\ failed_at' = idx
    /\ UNCHANGED daily_vehicle_summary
    /\ Abort

\* lines 189 and 218-227: conn.commit(), then the run totals and the
\* vehicle's log line; the loop moves to the next vehicle
UpsertCommit ==
    /\ pc = "commit"
    /\ daily_vehicle_summary' = uncommitted
    /\ total_points' = total_points + summary.total_points
    /\ total_violations' = total_violations + summary.speeding_violations
                              + summary.critical_violations
    /\ log' = Append(log, <<"commit", At(vehicles, idx)>>)
    /\ idx' = idx + 1
    /\ pc' = "loop"
    /\ UNCHANGED <<aggvars, vehicles_table, vehicle_telemetry, uncommitted, clock>>
    /\ UNCHANGED <<conn_open, target_date, vehicles, rows, summary, reported, runs>>
    /\ UNCHANGED <<start_table, failed_at, first_done>>

\* line 189 raises: the store has either applied the commit or has not
UpsertCommitFail ==
    /\ pc = "commit"
    /\ failed_at' = idx
    /\ daily_vehicle_summary' \in {daily_vehicle_summary, uncommitted}
    /\ Abort

\* lines 229-234: the loop is over, the DONE line is logged, conn is closed
Report ==
    /\ pc = "loop"
    /\ idx = Len(vehicles)
    /\ reported' = TRUE
    /\ conn_open' = FALSE
    /\ pc' = "done"
    /\ first_done' = IF first_done[target_date].run = 0
                     THEN [first_done EXCEPT ![target_date] =
                             [run |-> runs, table |-> daily_vehicle_summary]]
                     ELSE first_done
    /\ UNCHANGED <<aggvars, dbvars>>
    /\ UNCHANGED <<target_date, vehicles, idx, rows, summary, total_points,
                   total_violations, runs>>
    /\ UNCHANGED <<log, start_table, failed_at>>

Next ==
    \/ RunStart
    \/ ConnectFail
    \/ GetActiveVehicles
    \/ GetVehiclesFail
    \/ Fetch
    \/ FetchFail
    \/ Compute
    \/ UpsertExecute
    \/ UpsertExecuteFail
    \/ UpsertCommit
    \/ UpsertCommitFail
    \/ Report

Spec == Init /\ [][Next]_vars

-----------------------------------------------------------------------------
(* Claims about compute_summary, checked under SpecAgg *)

Returned == apc = "returned"

\* the three points of the end-to-end scenario
ScenarioRows ==
    RowsOf(<<Sample(60, PosA, 0, FALSE), Sample(60, PosB, 90, TRUE),
             Sample(60, PosC, 130, TRUE)>>)

ScenarioReturned == Returned /\ in_vehicle_id = 7 /\ in_rows = ScenarioRows

\* C2 as stated: on the scenario (vehicle 7; t=0 speed 0 engine off, t=60
\* speed 90 engine on, t=120 speed 130 engine on) compute_summary returns
\* total_points 3, speeding 1, critical 1, engine_off_moving 0, max_speed
\* 130.0 and total_driving_minutes 1.0.
C2_ScenarioAsStated ==
    ScenarioReturned =>
        /\ result.total_points = 3
        /\ result.speeding_violations = 1
        /\ result.critical_violations = 1
        /\ result.engine_off_moving = 0
        /\ result.max_speed = 130 * Scale
        /\ result.total_driving_minutes = 1 * Scale

\* C2 amended: on the same scenario compute_summary returns total_points 3,
\* speeding 1, critical 1, engine_off_moving 0, max_speed 130.0 and
\* total_driving_minutes 2.0: both 60-second pairs end at a point with the
\* engine on, so 120 seconds are counted.
C2_Scenario ==
    ScenarioReturned =>
        /\ result.total_points = 3
        /\ result.speeding_violations = 1
        /\ result.critical_violations = 1
        /\ result.engine_off_moving = 0
        /\ result.max_speed = 130 * Scale
        /\ result.total_driving_minutes = 2 * Scale

C2_Witness == ScenarioReturned /\ result.total_driving_minutes = 2 * Scale

\* the gap in seconds of the pair (point i-1, point i) of the input
Gap(k) == At(in_rows, k).ts - At(in_rows, k - 1).ts

\* C3: the iteration for a pair (i-1, i), i > 0, adds the whole gap to the
\* driving seconds exactly when point i has the engine on and the gap is
\* under 300 seconds, and adds 0 otherwise, whatever point i-1's engine is.
C3_DrivingGapPolicy ==
    [][(AggStep /\ i > 0) =>
          acc'.driving_seconds - acc.driving_seconds =
             IF At(in_rows, i).engine_status /\ Gap(i) < 300 THEN Gap(i) ELSE 0]_vars

\* a 120-second pair with the engine on has added exactly 120 seconds, and
\* the 600-second pair after it has added nothing
C3_Witness ==
    /\ apc = "loop"
    /\ i = 3
    /\ Gap(1) = 120 /\ At(in_rows, 1).engine_status
    /\ ~At(in_rows, 0).engine_status
    /\ Gap(2) = 600 /\ At(in_rows, 2).engine_status
    /\ acc.driving_seconds = 120

\* C4: an iteration counts its point in at most one speed bucket (over 120:
\* critical only; over 80 up to 120: speeding only; up to 80: neither), and
\* the returned speeding_violations + critical_violations <= total_points.
C4_ViolationExclusive ==
    /\ [][AggStep =>
            LET speed == At(in_rows, i).speed
                dc == acc'.critical - acc.critical
                ds == acc'.speeding - acc.speeding
            IN  /\ speed > 120 => (dc = 1 /\ ds = 0)
                /\ (speed > 80 /\ speed <= 120) => (dc = 0 /\ ds = 1)
                /\ speed <= 80 => (dc = 0 /\ ds = 0)]_vars
    /\ [](Returned =>
            result.speeding_violations + result.critical_violations
               <= result.total_points)

C4_Witness ==
    /\ Returned
    /\ result.total_points = 3
    /\ result.critical_violations = 2
    /\ result.speeding_violations = 1

\* the input with every point moved to the position of the first one, so
\* that no pair is a GPS jump
Colocated(list) ==
    [k \in 1..Len(list) |->
        [list[k] EXCEPT !.latitude = list[1].latitude,
                        !.longitude = list[1].longitude]]

PairDist(k) ==
    haversine_km(At(in_rows, k - 1).latitude, At(in_rows, k - 1).longitude,
                 At(in_rows, k).latitude, At(in_rows, k).longitude)

NotDistance == DerivedFields \ {"total_distance_km"}

\* C5: the iteration for a pair 50 km or more apart adds 0 to the distance
\* total and the one for a closer pair adds the pair's full distance; every
\* other field of the result is what it is for the same points with no pair
\* rejected.
C5_NoiseRejection ==
    /\ [][(AggStep /\ i > 0) =>
            acc'.total_distance - acc.total_distance =
               IF PairDist(i) >= 50 * MmPerKm THEN 0 ELSE PairDist(i)]_vars
    /\ [](Returned =>
            LET other == compute_summary(in_vehicle_id, in_date, Colocated(in_rows))
            IN  \A f \in NotDistance : result[f] = other[f])

\* a jump of over 50 km between two points was dropped, the pair before it
\* was added, and the point after the jump was still counted as critical
C5_Witness ==
    /\ Returned
    /\ Len(in_rows) = 3
    /\ PairDist(1) > 0 /\ PairDist(1) < 50 * MmPerKm
    /\ PairDist(2) >= 50 * MmPerKm
    /\ result.total_distance_km = RoundDiv(PairDist(1), MmPerKm \div Scale)
    /\ At(in_rows, 2).speed > 120
    /\ result.critical_violations >= 1

\* C6: for an empty point sequence compute_summary returns a dict with all
\* ten keys, the given vehicle_id and summary_date, and 0 in every one of
\* the eight derived fields.
C6_EmptyInput ==
    (Returned /\ in_rows = <<>>) =>
        /\ DOMAIN result = SummaryFields
        /\ result.vehicle_id = in_vehicle_id
        /\ result.summary_date = in_date
        /\ \A f \in DerivedFields : result[f] = 0

C6_Witness == Returned /\ in_rows = <<>> /\ DOMAIN result = SummaryFields

-----------------------------------------------------------------------------
(* Claims about the batch job, checked under Spec *)

\* the rows a table holds for a vehicle, on any date
RowsOfVehicle(table, v) ==
    { table[k] : k \in { j \in 1..Len(table) : table[j].vehicle_id = v } }

\* the eight derived fields of a stored row are those of a summary
DerivedEq(r, s) == \A f \in DerivedFields : r[f] = s[f]

\* the summary of a vehicle's points of the target date
Fresh(v) ==
    compute_summary(v, target_date,
                    fetch_daily_telemetry(vehicle_telemetry, v, target_date))

\* the table holds exactly one row for (v, target_date), with the derived
\* fields of the vehicle's summary
FullyWritten(table, v) ==
    /\ Cardinality(KeyRows(table, v, target_date)) = 1
    /\ \A k \in KeyRows(table, v, target_date) : DerivedEq(table[k], Fresh(v))

\* C1: when a run for a date completes after an earlier run for that date
\* completed (the telemetry is the same), every processed vehicle has exactly
\* one row for (vehicle, date) and its eight derived fields are those the
\* first completed run left.
C1_Idempotence ==
    (pc = "done" /\ first_done[target_date].run # 0) =>
        \A n \in 1..Len(vehicles) :
            LET v == vehicles[n]
                first == first_done[target_date].table
                now == KeyRows(daily_vehicle_summary, v, target_date)
                then == KeyRows(first, v, target_date)
            IN  /\ Cardinality(now) = 1
                /\ Cardinality(then) = 1
                /\ \A a \in now : \A b \in then :
                      \A f \in DerivedFields :
                          daily_vehicle_summary[a][f] = first[b][f]

\* a second run for the same date has completed and has rewritten the row of
\* a vehicle that has points on that date
C1_Witness ==
    /\ pc = "done"
    /\ first_done[target_date].run # 0
    /\ first_done[target_date].run < runs
    /\ \E n \in 1..Len(vehicles) :
          \E k \in KeyRows(daily_vehicle_summary, vehicles[n], target_date) :
              /\ daily_vehicle_summary[k].total_points > 0
              /\ daily_vehicle_summary[k].created_at = CreatedNow(clock)

\* C7: when run completes, every active vehicle has exactly one row for
\* (vehicle, target date), carrying its summary (all zero when it has no
\* points that day), and for a vehicle that is not active the run made no
\* store call and its rows are as they were when the run started.
C7_Coverage ==
    pc = "done" =>
        /\ \A n \in 1..Len(vehicles) :
              FullyWritten(daily_vehicle_summary, vehicles[n])
        /\ \A v \in Vehicles :
              vehicles_table[v] = "active" =>
                  Cardinality(KeyRows(daily_vehicle_summary, v, target_date)) = 1
        /\ \A v \in Vehicles :
              vehicles_table[v] # "active" =>
                  /\ RowsOfVehicle(daily_vehicle_summary, v) =
                        RowsOfVehicle(start_table, v)
                  /\ \A j \in 1..Len(log) : log[j][2] # v

\* a completed run has inserted the all-zero row of an active vehicle without
\* points that day, next to a vehicle that is not active
C7_Witness ==
    /\ pc = "done"
    /\ start_table = <<>>
    /\ \E v \in Vehicles :
          /\ vehicles_table[v] = "active"
          /\ fetch_daily_telemetry(vehicle_telemetry, v, target_date) = <<>>
          /\ \E k \in KeyRows(daily_vehicle_summary, v, target_date) :
                daily_vehicle_summary[k].total_points = 0
    /\ \E u \in Vehicles : vehicles_table[u] # "active"

\* the 0-based place of a vehicle in the local list "vehicles"
PlaceOf(v) == CHOOSE k \in 0..(Len(vehicles) - 1) : At(vehicles, k) = v

\* C8: once the fetch or the upsert of a vehicle has raised, the run is
\* aborted with the connection closed and no final report, no store call was
\* made for a later vehicle, nothing is left uncommitted, the rows of later
\* vehicles are as at the start of the run, the failing vehicle's row is
\* either as at the start or fully written, and the rows of the earlier
\* vehicles are fully written.
C8_FailureAborts ==
    failed_at >= 0 =>
        /\ pc = "aborted"
        /\ ~conn_open
        /\ ~reported
        /\ uncommitted = daily_vehicle_summary
        /\ \A j \in 1..Len(log) : PlaceOf(log[j][2]) <= failed_at
        /\ \A k \in 0..(Len(vehicles) - 1) :
              LET v == At(vehicles, k)
                  same == RowsOfVehicle(daily_vehicle_summary, v) =
                             RowsOfVehicle(start_table, v)
              IN  /\ k > failed_at => same
                  /\ k = failed_at => (same \/ FullyWritten(daily_vehicle_summary, v))
                  /\ k < failed_at => FullyWritten(daily_vehicle_summary, v)

\* the upsert of the second vehicle raised after the first vehicle's row was
\* committed over a stale one
C8_Witness ==
    /\ failed_at = 1
    /\ pc = "aborted"
    /\ start_table # <<>>
    /\ log[Len(log)] = <<"execute", At(vehicles, 1)>>
    /\ FullyWritten(daily_vehicle_summary, At(vehicles, 0))
    /\ daily_vehicle_summary # start_table

\* the step of one vehicle that comes before a step
StepBefore(op) ==
    CASE op = "compute" -> "fetch"
      [] op = "execute" -> "compute"
      [] op = "commit" -> "execute"

\* the vehicles fetched and not yet committed in this run
InFlight ==
    { v \in Vehicles :
        /\ \E j \in 1..Len(log) : log[j] = <<"fetch", v>>
        /\ ~\E j \in 1..Len(log) : log[j] = <<"commit", v>> }

\* C9: run takes the active vehicles in ascending order of id, one at a
\* time: a vehicle's steps are fetch, compute, execute, commit in that order,
\* a fetch follows the commit of a vehicle with a smaller id, at most one
\* vehicle is between its fetch and its commit, and a vehicle is committed
\* only after every active vehicle with a smaller id.
C9_SequentialOrder ==
    /\ \A n \in 1..(Len(vehicles) - 1) : vehicles[n] < vehicles[n + 1]
    /\ Len(log) > 0 => log[1][1] = "fetch"
    /\ \A j \in 2..Len(log) :
          IF log[j][1] = "fetch"
          THEN log[j - 1][1] = "commit" /\ log[j - 1][2] < log[j][2]
          ELSE log[j - 1][2] = log[j][2] /\ log[j - 1][1] = StepBefore(log[j][1])
    /\ Cardinality(InFlight) <= 1
    /\ \A j \in 1..Len(log) :
          log[j][1] = "commit" =>
              \A u \in Vehicles :
                  (vehicles_table[u] = "active" /\ u < log[j][2]) =>
                      \E k \in 1..(j - 1) : log[k] = <<"commit", u>>

\* two vehicles were taken one after the other, and the second is in flight
C9_Witness ==
    /\ Len(vehicles) >= 2
    /\ Len(log) = 6
    /\ log[4] = <<"commit", vehicles[1]>>
    /\ log[5] = <<"fetch", vehicles[2]>>
    /\ InFlight = {vehicles[2]}

\* C10: the commit of upsert_summary(S) leaves exactly one row under S's
\* key, with all eight derived fields those of S, and leaves the rows under
\* every other key as they were.
C10_KeyedReplace ==
    [][UpsertCommit =>
          LET new == daily_vehicle_summary'
              old == daily_vehicle_summary
          IN  /\ Cardinality(KeyRows(new, summary.vehicle_id, summary.summary_date)) = 1
              /\ \A k \in KeyRows(new, summary.vehicle_id, summary.summary_date) :
                    DerivedEq(new[k], summary)
              /\ \A v \in Vehicles : \A d \in Dates :
                    <<v, d>> # <<summary.vehicle_id, summary.summary_date>> =>
                        { new[k] : k \in KeyRows(new, v, d) } =
                           { old[k] : k \in KeyRows(old, v, d) }]_vars

\* a commit has replaced every derived field of a stale row, next to the
\* stale row of another vehicle that is untouched
C10_Witness ==
    /\ pc = "loop"
    /\ Len(log) > 0
    /\ log[Len(log)][1] = "commit"
    /\ LET v == log[Len(log)][2]
       IN  /\ \E k \in KeyRows(start_table, v, target_date) :
                 start_table[k] = StaleRow(v, target_date)
           /\ \E k \in KeyRows(daily_vehicle_summary, v, target_date) :
                 /\ DerivedEq(daily_vehicle_summary[k], summary)
                 /\ \A f \in DerivedFields :
                       daily_vehicle_summary[k][f] # StaleRow(v, target_date)[f]
                 /\ daily_vehicle_summary[k].created_at = CreatedNow(clock)
           /\ \E u \in Vehicles :
                 /\ u # v
                 /\ StaleRow(u, 1) \in RowsOfVehicle(daily_vehicle_summary, u)

====
